---- MODULE Spec2Model ----
(***************************************************************************)
(* The chat agent of backend/services/agent_interface.py and               *)
(* backend/agent/openai_runner.py as a state machine.                      *)
(*                                                                         *)
(* One request is two threads: the caller, inside ChatAgentRunner.process, *)
(* and the pool worker that runs OpenAIAgentRunner.run.  The completion    *)
(* API and the Tool Registry are the environment: each call to them may    *)
(* return, raise, or never answer (no step is taken).                      *)
(*                                                                         *)
(* Text is a sequence of words (the words of a string, split at spaces):   *)
(* the empty string is << >>, concatenation is \o.                         *)
(***************************************************************************)
EXTENDS Integers, Sequences, FiniteSets, TLC

VARIABLES
    apiKey,   \* os.environ has a non-empty OPENAI_API_KEY
    client,   \* OpenAIAgentRunner._client is set (not None)
    proc,     \* per request: the caller's frame of ChatAgentRunner.process
    run,      \* per request: the worker's frame of OpenAIAgentRunner.run
    singleton \* the module global _agent_instance and the frames of get_agent_runner

vars == <<apiKey, client, proc, run, singleton>>

(***************************************************************************)
(* Bounds of the model.                                                    *)
(***************************************************************************)
MaxHistory == 1      \* turns in a message history
MaxToolCalls == 2    \* tool calls in one completion response
MaxCallers == 2      \* threads that call get_agent_runner
MaxLongHistory == 12 \* turns of a long history
MaxOddTurns == 2     \* turns of a long history that are no assistant reply

Requests == {1, 2}   \* request slots; Spec runs calls one at a time in slot 1
SeqRequests == {1}

(***************************************************************************)
(* Fixed texts of the program.                                             *)
(***************************************************************************)
SYSTEM_PROMPT == <<"You are a helpful, friendly AI assistant">>
DidNotUnderstandText == <<"I didn't understand your request. Could you please try again?">>
TimeoutText == <<"Request timed out. Please try again.">>
ConfigErrorText == <<"OPENAI_API_KEY", "environment variable is not set.">>
DirectFallbackText == <<"I'm here to help! What would you like to know?">>
FinalFallbackText == <<"Task completed successfully!">>
InvalidKeyText == <<"OpenAI API key is invalid or not configured.">>
RateLimitText == <<"Too many requests. Please wait a moment and try again.">>

(***************************************************************************)
(* Inputs: histories, actor ids, completion responses, exceptions.         *)
(***************************************************************************)
Turns ==
    { [role |-> "user", content |-> <<"add milk">>],
      [role |-> "user", content |-> << >>],
      [role |-> "assistant", content |-> <<"done">>] }

SeqsUpTo(S, n) == UNION { [1..k -> S] : k \in 0..n }

Histories == SeqsUpTo(Turns, MaxHistory)

\* Long histories: turn k is the assistant's reply number k, except at up to
\* MaxOddTurns places, where it is a user's message number k, a turn of role
\* "system", or an assistant turn without content.  The number in the content
\* tells the turns apart.
OddKinds == {"user", "system", "empty"}

OddPlacements(n) ==
    UNION { [P -> OddKinds] :
              P \in {Q \in SUBSET (1..n) : Cardinality(Q) <= MaxOddTurns} }

TurnAt(k, odd) ==
    IF k \notin DOMAIN odd THEN [role |-> "assistant", content |-> <<"reply", ToString(k)>>]
    ELSE IF odd[k] = "user" THEN [role |-> "user", content |-> <<"ask", ToString(k)>>]
    ELSE IF odd[k] = "system" THEN [role |-> "system", content |-> <<"note", ToString(k)>>]
    ELSE [role |-> "assistant", content |-> << >>]

LongHistory(n, odd) == [k \in 1..n |-> TurnAt(k, odd)]

\* "7" is the id of a user; "x" is an id that is no number.
ActorIds == {"7", "x"}

\* function.arguments of a tool call, as the model wrote it.
ArgumentTexts ==
    { "{\"title\": \"milk\"}",
      "{\"title\": \"milk\", \"user_id\": \"9\"}",
      "{\"title\": ",
      "[\"milk\"]" }

ToolNames == {"add_task", "drop_table"}
KnownTools == {"add_task"}

\* One requested tool call without its id; the id is given by its place.
ToolCallShapes ==
    { [name |-> "add_task", arguments |-> a] : a \in ArgumentTexts }
    \cup { [name |-> "drop_table", arguments |-> "{\"title\": \"milk\"}"] }

CallId(i) == 100 + i

WithIds(shapes) ==
    [i \in 1..Len(shapes) |->
        [id |-> CallId(i), name |-> shapes[i].name, arguments |-> shapes[i].arguments]]

ToolCallLists == { WithIds(s) : s \in SeqsUpTo(ToolCallShapes, MaxToolCalls) }

Contents == { << >>, <<"Sure.">> }

\* The responses of the completion API: a text (or none) without tool calls, or
\* tool calls, which come with no text but for one response that has both.
Responses ==
    { [content |-> c, tool_calls |-> << >>] : c \in Contents }
    \cup { [content |-> << >>, tool_calls |-> t] : t \in ToolCallLists \ { << >> } }
    \cup { [content |-> <<"Sure.">>,
            tool_calls |-> WithIds(<<[name |-> "add_task",
                                      arguments |-> "{\"title\": \"milk\"}"]>>)] }

\* The responses to the second request: a text (or none), or a response that
\* asks for a tool again.
SecondResponses ==
    { [content |-> c, tool_calls |-> << >>] : c \in Contents }
    \cup { [content |-> << >>,
            tool_calls |-> WithIds(<<[name |-> "add_task",
                                      arguments |-> "{\"title\": \"milk\"}"]>>)] }

\* Two requests at the same time: each has its own actor id, and the model may
\* answer with a text, with one tool call, or with one tool call that names
\* another user.
ActorOf(r) == IF r = 1 THEN "7" ELSE "8"

ConcurrentHistory == <<[role |-> "user", content |-> <<"add milk">>]>>

ConcurrentResponses ==
    { [content |-> <<"Sure.">>, tool_calls |-> << >>] }
    \cup { [content |-> << >>,
            tool_calls |-> WithIds(<<[name |-> "add_task", arguments |-> a]>>)] :
              a \in {"{\"title\": \"milk\"}", "{\"title\": \"milk\", \"user_id\": \"9\"}"} }

ConcurrentExceptions == { [type |-> "Exception", msg |-> <<"rate_limit_exceeded">>] }

\* Exceptions: ValueError (and its subclasses) or any other Exception, with a message.
ErrorMessages ==
    { << >>,
      <<"rate_limit_exceeded">>,
      <<"Authentication", "rate_limit_exceeded">>,
      <<"rate_limit_exceeded", "model_not_found">>,
      <<"invalid_api_key">>,
      <<"model_not_found">> }

Exceptions == [type : {"ValueError", "Exception"}, msg : ErrorMessages]

ToolValues == {"created"}
ToolErrors == { <<"task not found">> }

(***************************************************************************)
(* Text helpers.                                                           *)
(***************************************************************************)
\* str.lower() of one word.
LowerWord(w) ==
    CASE w = "Authentication" -> "authentication"
      [] w = "OPENAI_API_KEY" -> "openai_api_key"
      [] OTHER -> w

\* The needles of the error classifier that occur inside one (lower-case) word.
NeedlesIn(w) ==
    CASE w = "rate_limit" -> {"rate_limit"}
      [] w = "rate_limit_exceeded" -> {"rate_limit"}
      [] w = "invalid_api_key" -> {"api_key", "invalid_api_key"}
      [] w = "openai_api_key" -> {"api_key"}
      [] w = "authentication" -> {"authentication"}
      [] w = "model_not_found" -> {"model"}
      [] OTHER -> {}

\* needle in text.lower(): no needle holds a space, so it lies inside one word.
InLower(needle, text) ==
    \E i \in 1..Len(text) : needle \in NeedlesIn(LowerWord(text[i]))

\* x or fallback
OrElse(text, fallback) == IF text # << >> THEN text ELSE fallback

\* json.loads of function.arguments
JsonLoads(text) ==
    CASE text = "{\"title\": \"milk\"}" ->
            [kind |-> "dict", value |-> [title |-> "milk"]]
      [] text = "{\"title\": \"milk\", \"user_id\": \"9\"}" ->
            [kind |-> "dict", value |-> [title |-> "milk", user_id |-> "9"]]
      [] text = "[\"milk\"]" ->
            [kind |-> "list", value |-> [title |-> "milk"]]
      [] OTHER ->
            [kind |-> "JSONDecodeError", value |-> [title |-> ""]]

JSONDecodeErrorText == <<"Expecting value: line 1 column 11 (char 10)">>
ItemAssignmentErrorText == <<"list indices must be integers or slices, not str">>
IntErrorText == <<"invalid literal for int() with base 10">>

\* int(s): whether it raises ValueError, and its value.
IsIntLiteral(s) == s \in {"7", "8", "9"}

ParseInt(s) ==
    CASE s = "7" -> 7
      [] s = "8" -> 8
      [] s = "9" -> 9
      [] OTHER -> 0

\* json.dumps of a tool's result {"status": value}; the registry's results are
\* JSON-serializable.
JsonDumpsResult(value) == <<"{\"status\":", value, "}">>

\* json.dumps({"error": str(e)})
JsonDumpsError(msg) == <<"{\"error\":">> \o msg \o <<"}">>

(***************************************************************************)
(* ChatAgentRunner.process: its pure parts.                                *)
(***************************************************************************)
\* AgentContext.from_request: the context keeps the actor id and the history.
FromRequest(user_id, messages) == [user_id |-> user_id, messages |-> messages]

\* The scan of reversed(messages) for the first turn whose role is "user".
RECURSIVE ScanUser(_, _)
ScanUser(messages, k) ==
    IF k = 0 THEN << >>
    ELSE IF messages[k].role = "user" THEN messages[k].content
    ELSE ScanUser(messages, k - 1)

\* A scan that takes the last turn, whatever its role.
LastMessageAnyRole(messages) ==
    IF messages = << >> THEN << >> ELSE messages[Len(messages)].content

LastUserMessage(messages) == ScanUser(messages, Len(messages))

(***************************************************************************)
(* OpenAIAgentRunner.run: its pure parts.                                  *)
(***************************************************************************)
HistoryWindow == 10

Message(role, content) ==
    [role |-> role, content |-> content, tool_call_id |-> 0, tool_calls |-> << >>]

\* messages[:10], the first turns instead of the last.
FirstTurns(messages) ==
    SubSeq(messages, 1,
           IF Len(messages) > HistoryWindow THEN HistoryWindow ELSE Len(messages))

\* messages[-10:]
LastTurns(messages) ==
    SubSeq(messages,
           IF Len(messages) > HistoryWindow THEN Len(messages) - HistoryWindow + 1 ELSE 1,
           Len(messages))

KeepTurn(msg) == msg.role \in {"user", "assistant"} /\ msg.content # << >>

RECURSIVE AppendTurns(_, _)
AppendTurns(messages, turns) ==
    IF turns = << >> THEN messages
    ELSE AppendTurns(
            IF KeepTurn(Head(turns))
            THEN Append(messages, Message(Head(turns).role, Head(turns).content))
            ELSE messages,
            Tail(turns))

\* The messages array of the first completion request.
BuildMessages(context) ==
    AppendTurns(<<Message("system", SYSTEM_PROMPT)>>, LastTurns(context.messages))

\* A _get_client that builds the client without looking at the key.
GetClientNoKeyCheck(isSet, key) ==
    [client |-> TRUE, raised |-> FALSE, created |-> ~isSet]

\* A _get_client that assigns self._client before it looks at the key.
GetClientKeepsFailure(isSet, key) ==
    IF isSet THEN [client |-> TRUE, raised |-> FALSE, created |-> FALSE]
    ELSE [client |-> TRUE, raised |-> ~key, created |-> TRUE]

\* _get_client: the client after the call, whether ValueError was raised, and
\* whether OpenAI(api_key=...) was constructed.
GetClient(isSet, key) ==
    IF isSet THEN [client |-> TRUE, raised |-> FALSE, created |-> FALSE]
    ELSE IF ~key THEN [client |-> FALSE, raised |-> TRUE, created |-> FALSE]
    ELSE [client |-> TRUE, raised |-> FALSE, created |-> TRUE]

\* tool_args.setdefault("user_id", context.user_id): a supplied id is kept.
InjectUserIdKeep(tool_args, user_id) ==
    [k \in DOMAIN tool_args \cup {"user_id"} |->
        IF k \in DOMAIN tool_args THEN tool_args[k] ELSE user_id]

\* tool_args["user_id"] = context.user_id
InjectUserId(tool_args, user_id) ==
    [k \in DOMAIN tool_args \cup {"user_id"} |->
        IF k = "user_id" THEN user_id ELSE tool_args[k]]

\* {k: v for k, v in tool_args.items() if k != "user_id"}
WithoutUserId(tool_args) ==
    [k \in DOMAIN tool_args \ {"user_id"} |-> tool_args[k]]

ToolCallRecord(tool_name, tool_args, value) ==
    [tool_name |-> tool_name, parameters |-> WithoutUserId(tool_args),
     result |-> value, duration_ms |-> 0]

AgentResult(success, response, tool_calls, error) ==
    [success |-> success, response |-> response, tool_calls |-> tool_calls,
     error |-> error]

\* The classifier with the test for "model" before the test for "rate_limit".
ClassifyErrorModelFirst(error_msg) ==
    IF InLower("api_key", error_msg) \/ InLower("authentication", error_msg)
       \/ InLower("invalid_api_key", error_msg)
    THEN InvalidKeyText
    ELSE IF InLower("model", error_msg)
    THEN <<"Model error:">> \o error_msg \o <<". Please check OPENAI_MODEL setting.">>
    ELSE IF InLower("rate_limit", error_msg) THEN RateLimitText
    ELSE <<"Error:">> \o error_msg

\* The response text of the handler "except Exception".
ClassifyError(error_msg) ==
    IF InLower("api_key", error_msg) \/ InLower("authentication", error_msg)
       \/ InLower("invalid_api_key", error_msg)
    THEN InvalidKeyText
    ELSE IF InLower("rate_limit", error_msg) THEN RateLimitText
    ELSE IF InLower("model", error_msg)
    THEN <<"Model error:">> \o error_msg \o <<". Please check OPENAI_MODEL setting.">>
    ELSE <<"Error:">> \o error_msg

\* The two handlers that end run's try block.
ErrorResult(e, tool_calls_record) ==
    IF e.type = "ValueError"
    THEN AgentResult(FALSE, e.msg, tool_calls_record, {e.msg})
    ELSE AgentResult(FALSE, ClassifyError(e.msg), tool_calls_record, {e.msg})

\* The assistant's tool-call message and the tool messages, appended for the second call.
AssistantDict(assistant_message) ==
    [role |-> "assistant", content |-> assistant_message.content, tool_call_id |-> 0,
     tool_calls |-> assistant_message.tool_calls]

ToolMessage(tool_result) ==
    [role |-> "tool", content |-> tool_result.output,
     tool_call_id |-> tool_result.tool_call_id, tool_calls |-> << >>]

SecondMessages(messages, assistant_message, tool_results) ==
    messages \o <<AssistantDict(assistant_message)>>
             \o [k \in 1..Len(tool_results) |-> ToolMessage(tool_results[k])]

\* MCPToolServer.call: what a dispatch may answer.
RegistryReturns(name) == IF name \in KnownTools THEN ToolValues ELSE {}

RegistryRaises(name) ==
    IF name \in KnownTools THEN ToolErrors ELSE { <<"Unknown tool">> }

(***************************************************************************)
(* Frames.                                                                 *)
(***************************************************************************)
NoContext == FromRequest("", << >>)

\* The frame of process; had_client notes whether the runner held a client when
\* process was entered.
IdleProc ==
    [pc |-> "idle", context |-> NoContext, last_message |-> << >>, result |-> << >>,
     had_client |-> FALSE]

NoMessage == [content |-> << >>, tool_calls |-> << >>]

NoResult == AgentResult(FALSE, << >>, << >>, {})

\* The frame of run at its first line; pc is "none" while no worker exists.
\* Beside run's locals it keeps what crossed its boundary: the completion
\* requests sent, the responses received, the exceptions the completion API
\* raised, the calls dispatched to the registry, and whether this run
\* constructed the client.
NewRun(pc) ==
    [pc |-> pc, messages |-> << >>, assistant_message |-> NoMessage, i |-> 1,
     tool_results |-> << >>, tool_calls_record |-> << >>, result |-> NoResult,
     sent |-> << >>, received |-> << >>, raised |-> << >>, dispatched |-> << >>,
     made_client |-> FALSE]

\* A thread outside get_agent_runner; made is the ChatAgentRunner it constructed
\* in this call (0: none), got the instance its last call returned (0: none yet).
Callers == 1..MaxCallers

IdleCaller == [pc |-> "idle", made |-> 0, got |-> 0]

\* Line 75: _agent_instance is None (0); no ChatAgentRunner was constructed;
\* nothing was returned yet.
NoSingleton ==
    [instance |-> 0, built |-> 0, returned |-> {},
     caller |-> [t \in Callers |-> IdleCaller]]

Init ==
    /\ apiKey \in BOOLEAN
    /\ client = FALSE
    /\ proc = [r \in Requests |-> IdleProc]
    /\ run = [r \in Requests |-> NewRun("none")]
    /\ singleton = NoSingleton

(***************************************************************************)
(* The environment: OPENAI_API_KEY is set or unset between calls, so that   *)
(* apiKey is the same from the entry of process to the release of its      *)
(* frame.                                                                  *)
(***************************************************************************)
Quiet == \A r \in Requests : proc[r].pc = "idle"

SetEnv(key) ==
    /\ Quiet
    /\ key # apiKey
    /\ apiKey' = key
    /\ UNCHANGED <<client, proc, run, singleton>>

(***************************************************************************)
(* ChatAgentRunner.process, the caller's side.                             *)
(***************************************************************************)
\* Lines 40-60: build the context, find the last user message, and either return
\* the fixed text or submit run to the pool and wait for its result.
Process(r, messages, user_id) ==
    /\ proc[r].pc = "idle"
    /\ LET context == FromRequest(user_id, messages)
           last_message == LastUserMessage(messages)
       IN IF last_message = << >>
          THEN /\ proc' = [proc EXCEPT ![r] =
                      [pc |-> "returned", context |-> context,
                       last_message |-> last_message, result |-> DidNotUnderstandText,
                       had_client |-> client]]
               /\ run' = [run EXCEPT ![r] = NewRun("none")]
          ELSE /\ proc' = [proc EXCEPT ![r] =
                      [pc |-> "waiting", context |-> context,
                       last_message |-> last_message, result |-> << >>,
                       had_client |-> client]]
               /\ run' = [run EXCEPT ![r] = NewRun("start")]
    /\ UNCHANGED <<apiKey, client, singleton>>

\* Lines 57-64: the future has a result; the pool shuts down at once, since its
\* worker has ended, and process returns result.response.
ReturnResponse(r) ==
    /\ proc[r].pc = "waiting"
    /\ run[r].pc = "done"
    /\ proc' = [proc EXCEPT ![r].pc = "returned", ![r].result = run[r].result.response]
    /\ UNCHANGED <<apiKey, client, run, singleton>>

\* The worker waits for an answer of the completion API or of a tool: the only
\* places where run can spend the 60 seconds.
Blocked(r) == run[r].pc \in {"first_call", "tool_call", "second_call"}

\* Line 60: result(timeout=60) raises TimeoutError; the with block is left through
\* ThreadPoolExecutor.__exit__, which is shutdown(wait=True).
Timeout(r) ==
    /\ proc[r].pc = "waiting"
    /\ Blocked(r)
    /\ proc' = [proc EXCEPT ![r].pc = "shutdown"]
    /\ UNCHANGED <<apiKey, client, run, singleton>>

\* Whether shutdown(wait=True) has joined the worker.
Joined(r) == run[r].pc = "done"

\* Lines 57, 66-68: shutdown has joined the worker; the TimeoutError reaches its
\* handler and process returns the timeout text.
ReturnTimeout(r) ==
    /\ proc[r].pc = "shutdown"
    /\ Joined(r)
    /\ proc' = [proc EXCEPT ![r].pc = "returned", ![r].result = TimeoutText]
    /\ UNCHANGED <<apiKey, client, run, singleton>>

\* The caller has taken the returned text; the frames of the call are gone.
Release(r) ==
    /\ proc[r].pc = "returned"
    /\ proc' = [proc EXCEPT ![r] = IdleProc]
    /\ run' = [run EXCEPT ![r] = NewRun("none")]
    /\ UNCHANGED <<apiKey, client, singleton>>

(***************************************************************************)
(* OpenAIAgentRunner.run, the worker's side.                               *)
(***************************************************************************)
Finish(r, result) == run' = [run EXCEPT ![r].pc = "done", ![r].result = result]

Fail(r, e) == Finish(r, ErrorResult(e, run[r].tool_calls_record))

\* Handlers that return the error without the records made so far.
CallFailsNoRecords(r, e) ==
    run' = [run EXCEPT ![r].pc = "done",
                       ![r].raised = Append(@, e),
                       ![r].result = ErrorResult(e, << >>)]

\* A completion request raises e: the handlers of run's try block end the run.
CallFails(r, e) ==
    run' = [run EXCEPT ![r].pc = "done",
                       ![r].raised = Append(@, e),
                       ![r].result = ErrorResult(e, run[r].tool_calls_record)]

\* Lines 130-159: build the messages, get the client, issue the first request
\* (with the tools offered).
FirstCall(r) ==
    /\ run[r].pc = "start"
    /\ LET messages == BuildMessages(proc[r].context)
           got == GetClient(client, apiKey)
       IN /\ client' = got.client
          /\ IF got.raised
             THEN Fail(r, [type |-> "ValueError", msg |-> ConfigErrorText])
             ELSE run' = [run EXCEPT
                     ![r].pc = "first_call",
                     ![r].messages = messages,
                     ![r].made_client = got.created,
                     ![r].sent = <<[messages |-> messages, tools |-> TRUE]>>]
    /\ UNCHANGED <<apiKey, proc, singleton>>

\* The first response taken without the fallback for an empty content.
FirstCallReturnsNoFallback(r, content, tool_calls) ==
    /\ run[r].pc = "first_call"
    /\ LET assistant_message == [content |-> content, tool_calls |-> tool_calls]
       IN IF tool_calls # << >>
          THEN run' = [run EXCEPT ![r].pc = "loop",
                                  ![r].received = Append(@, assistant_message),
                                  ![r].assistant_message = assistant_message]
          ELSE run' = [run EXCEPT
                  ![r].pc = "done",
                  ![r].received = Append(@, assistant_message),
                  ![r].assistant_message = assistant_message,
                  ![r].result = AgentResult(TRUE, content, run[r].tool_calls_record, {})]
    /\ UNCHANGED <<apiKey, client, proc, singleton>>

\* Lines 161-165, 240-250: the first response arrives.
FirstCallReturns(r, content, tool_calls) ==
    /\ run[r].pc = "first_call"
    /\ LET assistant_message == [content |-> content, tool_calls |-> tool_calls]
       IN IF tool_calls # << >>
          THEN run' = [run EXCEPT ![r].pc = "loop",
                                  ![r].received = Append(@, assistant_message),
                                  ![r].assistant_message = assistant_message]
          ELSE run' = [run EXCEPT
                  ![r].pc = "done",
                  ![r].received = Append(@, assistant_message),
                  ![r].assistant_message = assistant_message,
                  ![r].result = AgentResult(TRUE, OrElse(content, DirectFallbackText),
                                            run[r].tool_calls_record, {})]
    /\ UNCHANGED <<apiKey, client, proc, singleton>>

\* Lines 152, 252-283: the first request raises.
FirstCallRaises(r, e) ==
    /\ run[r].pc = "first_call"
    /\ CallFails(r, e)
    /\ UNCHANGED <<apiKey, client, proc, singleton>>

\* The tool call the loop of line 168 is at.
InLoop(r) == run[r].pc = "loop" /\ run[r].i <= Len(run[r].assistant_message.tool_calls)

ToolCall(r) == run[r].assistant_message.tool_calls[run[r].i]

\* The error that lines 170-173 raise for the current tool call, outside the
\* try of line 178: none, JSONDecodeError (a ValueError) or TypeError.
ArgumentsError(arguments) ==
    LET loaded == JsonLoads(arguments)
    IN IF loaded.kind = "JSONDecodeError"
       THEN {[type |-> "ValueError", msg |-> JSONDecodeErrorText]}
       ELSE IF loaded.kind # "dict"
       THEN {[type |-> "Exception", msg |-> ItemAssignmentErrorText]}
       ELSE {}

\* One more entry of tool_results; the loop goes on with the next tool call.
NextCall(r, output, records) ==
    run' = [run EXCEPT
        ![r].pc = "loop",
        ![r].i = @ + 1,
        ![r].tool_results =
            Append(@, [tool_call_id |-> ToolCall(r).id, output |-> output]),
        ![r].tool_calls_record = records]

\* Lines 170-173 raise: the exception leaves the loop for the handlers of run.
ArgumentsRaise(r) ==
    /\ InLoop(r)
    /\ ArgumentsError(ToolCall(r).arguments) # {}
    /\ \E e \in ArgumentsError(ToolCall(r).arguments) : Fail(r, e)
    /\ UNCHANGED <<apiKey, client, proc, singleton>>

\* Lines 178-183, 197-202: int(context.user_id) raises inside the try, before the
\* registry is called.
ActorIdRaises(r) ==
    /\ InLoop(r)
    /\ ArgumentsError(ToolCall(r).arguments) = {}
    /\ ~IsIntLiteral(proc[r].context.user_id)
    /\ NextCall(r, JsonDumpsError(IntErrorText), run[r].tool_calls_record)
    /\ UNCHANGED <<apiKey, client, proc, singleton>>

\* The call of lines 179-183, as the registry receives it.
Dispatch(name, arguments, user_id) ==
    [name |-> name,
     args |-> InjectUserId(JsonLoads(arguments).value, user_id),
     actor |-> ParseInt(user_id)]

\* Lines 169-183: the registry is called.
\* A dispatch that takes the actor id from a context kept on the shared runner:
\* the context of the other request when that request is under way.
ToolDispatchSharedContext(r) ==
    /\ InLoop(r)
    /\ ArgumentsError(ToolCall(r).arguments) = {}
    /\ IsIntLiteral(proc[r].context.user_id)
    /\ LET other == CHOOSE q \in Requests : q # r
           context == IF proc[other].pc = "idle" THEN proc[r].context
                      ELSE proc[other].context
       IN run' = [run EXCEPT
             ![r].pc = "tool_call",
             ![r].dispatched =
                 Append(@, Dispatch(ToolCall(r).name, ToolCall(r).arguments,
                                    context.user_id))]
    /\ UNCHANGED <<apiKey, client, proc, singleton>>

ToolDispatch(r) ==
    /\ InLoop(r)
    /\ ArgumentsError(ToolCall(r).arguments) = {}
    /\ IsIntLiteral(proc[r].context.user_id)
    /\ run' = [run EXCEPT
          ![r].pc = "tool_call",
          ![r].dispatched =
              Append(@, Dispatch(ToolCall(r).name, ToolCall(r).arguments,
                                 proc[r].context.user_id))]
    /\ UNCHANGED <<apiKey, client, proc, singleton>>

\* Lines 184-196: the tool result and the record of a call that returned.
AfterReturn(r, value) ==
    NextCall(r, JsonDumpsResult(value),
             Append(run[r].tool_calls_record,
                    ToolCallRecord(ToolCall(r).name,
                                   run[r].dispatched[Len(run[r].dispatched)].args,
                                   value)))

\* A handler that appends no tool result for the failed call.
AfterRaiseNoResult(r, msg) == run' = [run EXCEPT ![r].pc = "loop", ![r].i = @ + 1]

\* A handler that records the failed call as well.
AfterRaiseRecorded(r, msg) ==
    NextCall(r, JsonDumpsError(msg),
             Append(run[r].tool_calls_record,
                    ToolCallRecord(ToolCall(r).name,
                                   run[r].dispatched[Len(run[r].dispatched)].args,
                                   "error")))

\* Lines 197-202: the handler of a failed call.
AfterRaise(r, msg) == NextCall(r, JsonDumpsError(msg), run[r].tool_calls_record)

ToolReturns(r, value) ==
    /\ run[r].pc = "tool_call"
    /\ value \in RegistryReturns(ToolCall(r).name)
    /\ AfterReturn(r, value)
    /\ UNCHANGED <<apiKey, client, proc, singleton>>

ToolRaises(r, msg) ==
    /\ run[r].pc = "tool_call"
    /\ msg \in RegistryRaises(ToolCall(r).name)
    /\ AfterRaise(r, msg)
    /\ UNCHANGED <<apiKey, client, proc, singleton>>

\* A second request issued from inside the loop, before its last iteration.
SecondCallEarly(r) ==
    /\ run[r].pc = "loop"
    /\ LET messages == SecondMessages(run[r].messages, run[r].assistant_message,
                                      run[r].tool_results)
       IN run' = [run EXCEPT
             ![r].pc = "second_call",
             ![r].messages = messages,
             ![r].sent = Append(@, [messages |-> messages, tools |-> FALSE])]
    /\ UNCHANGED <<apiKey, client, proc, singleton>>

\* A second request that offers the tools again.
SecondCallWithTools(r) ==
    /\ run[r].pc = "loop"
    /\ ~InLoop(r)
    /\ LET messages == SecondMessages(run[r].messages, run[r].assistant_message,
                                      run[r].tool_results)
       IN run' = [run EXCEPT
             ![r].pc = "second_call",
             ![r].messages = messages,
             ![r].sent = Append(@, [messages |-> messages, tools |-> TRUE])]
    /\ UNCHANGED <<apiKey, client, proc, singleton>>

\* Lines 204-237: the loop has ended; the second request is issued, without tools.
SecondCall(r) ==
    /\ run[r].pc = "loop"
    /\ ~InLoop(r)
    /\ LET messages == SecondMessages(run[r].messages, run[r].assistant_message,
                                      run[r].tool_results)
       IN run' = [run EXCEPT
             ![r].pc = "second_call",
             ![r].messages = messages,
             ![r].sent = Append(@, [messages |-> messages, tools |-> FALSE])]
    /\ UNCHANGED <<apiKey, client, proc, singleton>>

\* Lines 239, 244-250: only the content of the second response is read; tool
\* calls in it are left alone.
SecondCallReturns(r, content, tool_calls) ==
    /\ run[r].pc = "second_call"
    /\ run' = [run EXCEPT
          ![r].pc = "done",
          ![r].received = Append(@, [content |-> content, tool_calls |-> tool_calls]),
          ![r].result = AgentResult(TRUE, OrElse(content, FinalFallbackText),
                                    run[r].tool_calls_record, {})]
    /\ UNCHANGED <<apiKey, client, proc, singleton>>

\* Lines 232, 252-283.
SecondCallRaises(r, e) ==
    /\ run[r].pc = "second_call"
    /\ CallFails(r, e)
    /\ UNCHANGED <<apiKey, client, proc, singleton>>

(***************************************************************************)
(* get_agent_runner, lines 78-83, one step per line: threads of the server *)
(* run it without a lock, and a thread may be switched out between any two *)
(* lines (the constructor of line 82 imports modules and builds the        *)
(* registry and the runner).                                               *)
(***************************************************************************)
CallerAt(t, pc) == singleton.caller[t].pc = pc

\* A thread calls get_agent_runner.
GetAgentRunner(t) ==
    /\ CallerAt(t, "idle")
    /\ singleton' = [singleton EXCEPT !.caller[t] = [@ EXCEPT !.pc = "test", !.made = 0]]
    /\ UNCHANGED <<apiKey, client, proc, run>>

\* Line 81: if _agent_instance is None.
TestInstance(t) ==
    /\ CallerAt(t, "test")
    /\ singleton' = [singleton EXCEPT
          !.caller[t].pc = IF singleton.instance = 0 THEN "construct" ELSE "return"]
    /\ UNCHANGED <<apiKey, client, proc, run>>

\* Line 82, right side: ChatAgentRunner() builds one more instance.
ConstructInstance(t) ==
    /\ CallerAt(t, "construct")
    /\ singleton' = [singleton EXCEPT
          !.built = @ + 1,
          !.caller[t] = [@ EXCEPT !.pc = "assign", !.made = singleton.built + 1]]
    /\ UNCHANGED <<apiKey, client, proc, run>>

\* Line 82, left side: the global is assigned.
AssignInstance(t) ==
    /\ CallerAt(t, "assign")
    /\ singleton' = [singleton EXCEPT
          !.instance = singleton.caller[t].made,
          !.caller[t].pc = "return"]
    /\ UNCHANGED <<apiKey, client, proc, run>>

\* Line 83: return _agent_instance, the global as it is now.
ReturnInstance(t) ==
    /\ CallerAt(t, "return")
    /\ singleton' = [singleton EXCEPT
          !.returned = @ \cup {singleton.instance},
          !.caller[t] = [@ EXCEPT !.pc = "idle", !.got = singleton.instance]]
    /\ UNCHANGED <<apiKey, client, proc, run>>

NextSingleton ==
    \/ \E t \in Callers : GetAgentRunner(t)
    \/ \E t \in Callers : TestInstance(t)
    \/ \E t \in Callers : ConstructInstance(t)
    \/ \E t \in Callers : AssignInstance(t)
    \/ \E t \in Callers : ReturnInstance(t)

\* Calls of get_agent_runner from the threads of one process.
SpecSingleton == Init /\ [][NextSingleton]_vars

(***************************************************************************)
(* The prompt of the first request, for long histories: process is called, *)
(* run builds the messages and issues the first request.                   *)
(***************************************************************************)
NextPrompt ==
    \/ /\ proc[1].pc = "idle"
       /\ \E n \in 0..MaxLongHistory : \E odd \in OddPlacements(n) :
             Process(1, LongHistory(n, odd), "7")
    \/ FirstCall(1)
    \/ Release(1)

SpecPrompt == Init /\ [][NextPrompt]_vars

(***************************************************************************)
(* Two calls of process at the same time on one runner, from two threads   *)
(* of the server, each with its own actor id.  The steps of the two calls  *)
(* interleave in every way.                                                *)
(***************************************************************************)
NextConcurrent ==
    \/ \E r \in Requests : Process(r, ConcurrentHistory, ActorOf(r))
    \/ \E r \in Requests : ReturnResponse(r)
    \/ \E r \in Requests : Timeout(r)
    \/ \E r \in Requests : ReturnTimeout(r)
    \/ \E r \in Requests : Release(r)
    \/ \E r \in Requests : FirstCall(r)
    \/ \E r \in Requests, response \in ConcurrentResponses :
          FirstCallReturns(r, response.content, response.tool_calls)
    \/ \E r \in Requests, e \in ConcurrentExceptions : FirstCallRaises(r, e)
    \/ \E r \in Requests : ToolDispatch(r)
    \/ \E r \in Requests, value \in ToolValues : ToolReturns(r, value)
    \/ \E r \in Requests, msg \in ToolErrors : ToolRaises(r, msg)
    \/ \E r \in Requests : SecondCall(r)
    \/ \E r \in Requests, content \in Contents : SecondCallReturns(r, content, << >>)
    \/ \E r \in Requests, e \in ConcurrentExceptions : SecondCallRaises(r, e)

SpecConcurrent == Init /\ [][NextConcurrent]_vars

(***************************************************************************)
(* Calls one at a time on one runner.                                      *)
(***************************************************************************)
Next ==
    \/ \E key \in BOOLEAN : SetEnv(key)
    \/ \E r \in SeqRequests, messages \in Histories, user_id \in ActorIds :
          Process(r, messages, user_id)
    \/ \E r \in SeqRequests : ReturnResponse(r)
    \/ \E r \in SeqRequests : Timeout(r)
    \/ \E r \in SeqRequests : ReturnTimeout(r)
    \/ \E r \in SeqRequests : Release(r)
    \/ \E r \in SeqRequests : FirstCall(r)
    \/ \E r \in SeqRequests, response \in Responses :
          FirstCallReturns(r, response.content, response.tool_calls)
    \/ \E r \in SeqRequests, e \in Exceptions : FirstCallRaises(r, e)
    \/ \E r \in SeqRequests : ArgumentsRaise(r)
    \/ \E r \in SeqRequests : ActorIdRaises(r)
    \/ \E r \in SeqRequests : ToolDispatch(r)
    \/ \E r \in SeqRequests, value \in ToolValues : ToolReturns(r, value)
    \/ \E r \in SeqRequests, msg \in ToolErrors \cup { <<"Unknown tool">> } :
          ToolRaises(r, msg)
    \/ \E r \in SeqRequests : SecondCall(r)
    \/ \E r \in SeqRequests, response \in SecondResponses :
          SecondCallReturns(r, response.content, response.tool_calls)
    \/ \E r \in SeqRequests, e \in Exceptions : SecondCallRaises(r, e)

Spec == Init /\ [][Next]_vars

(***************************************************************************)
(* The same program with its scheduling: a thread that can take its next   *)
(* step takes it, and the 60 seconds of result(timeout=60) pass.  Nothing  *)
(* makes the completion API or a tool answer.                              *)
(***************************************************************************)
ThreadStep ==
    \E r \in SeqRequests :
        \/ ReturnResponse(r)
        \/ Timeout(r)
        \/ ReturnTimeout(r)
        \/ FirstCall(r)
        \/ ArgumentsRaise(r)
        \/ ActorIdRaises(r)
        \/ ToolDispatch(r)
        \/ SecondCall(r)

FairSpec == Init /\ [][Next]_vars /\ WF_vars(ThreadStep)

(***************************************************************************)
(* What the claims speak of.                                               *)
(***************************************************************************)
\* The tool calls the first response requested.
Requested(r) == run[r].assistant_message.tool_calls

RunDone(r) == run[r].pc = "done"

Returned(r) == proc[r].pc = "returned"

\* needle in text, letter case kept.
InText(needle, text) == \E i \in 1..Len(text) : needle \in NeedlesIn(text[i])

(***************************************************************************)
(* C1.  Whatever the completion API and the tools do (return, raise, or    *)
(* never answer), every call of process returns a non-empty text to its    *)
(* caller.                                                                 *)
(***************************************************************************)
C1_ProcessAlwaysReturns ==
    \A r \in SeqRequests :
        (proc[r].pc = "waiting") ~> (Returned(r) /\ proc[r].result # << >>)

(***************************************************************************)
(* C2.  Once result(timeout=60) has timed out, process returns the timeout *)
(* text without waiting for the worker: its return is possible at once,    *)
(* whether or not the worker has ended.                                    *)
(***************************************************************************)
C2_TimeoutReturnsWithoutWaiting ==
    \A r \in SeqRequests : proc[r].pc = "shutdown" => ENABLED ReturnTimeout(r)

(***************************************************************************)
(* C3.  A run whose first response requested tool calls ends only after    *)
(* every requested call got its result and the second completion request   *)
(* was issued, and it ends with success when no completion request raised: *)
(* no failure of a tool call ends the run.                                 *)
(***************************************************************************)
C3_ToolFailureNeverAborts ==
    \A r \in SeqRequests :
        (RunDone(r) /\ Requested(r) # << >>) =>
            /\ Len(run[r].tool_results) = Len(Requested(r))
            /\ Len(run[r].sent) = 2
            /\ (run[r].raised = << >> => run[r].result.success)

C5_OneRecordPerCall ==
    \A r \in SeqRequests :
        (RunDone(r) /\ run[r].result.success /\ Requested(r) # << >>
                    /\ Len(run[r].dispatched) = Len(Requested(r))) =>
            /\ Len(run[r].result.tool_calls) = Len(Requested(r))
            /\ \A k \in 1..Len(Requested(r)) :
                  run[r].result.tool_calls[k].tool_name = Requested(r)[k].name

\* Whether an entry of tool_results is the output of a call that succeeded.
Succeeded(tool_result) == Head(tool_result.output) = "{\"status\":"

\* The records of the calls that succeeded, in the order of the requests.
RECURSIVE RecordsOfSucceeded(_, _, _)
RecordsOfSucceeded(calls, tool_results, k) ==
    IF k > Len(tool_results) THEN << >>
    ELSE (IF Succeeded(tool_results[k])
          THEN <<ToolCallRecord(calls[k].name, JsonLoads(calls[k].arguments).value,
                                tool_results[k].output[2])>>
          ELSE << >>)
         \o RecordsOfSucceeded(calls, tool_results, k + 1)

(***************************************************************************)
(* C5, amended.  The result of run holds one record for each requested     *)
(* tool call that was dispatched and returned a result that json.dumps     *)
(* accepted, in the order of the requests, and no record for a call that   *)
(* failed or was not reached: at most N records for N requests.            *)
(***************************************************************************)
C5_OneRecordPerSucceededCall ==
    \A r \in SeqRequests :
        (RunDone(r) /\ Requested(r) # << >>) =>
            /\ run[r].result.tool_calls =
                  RecordsOfSucceeded(Requested(r), run[r].tool_results, 1)
            /\ Len(run[r].result.tool_calls) <= Len(Requested(r))

\* A run has ended with success after two requested calls, one of which failed.
C5_Witness ==
    \E r \in SeqRequests :
        /\ RunDone(r)
        /\ run[r].result.success
        /\ Len(Requested(r)) = 2
        /\ Len(run[r].tool_results) = 2
        /\ Len(run[r].result.tool_calls) = 1

(***************************************************************************)
(* C6.  Every call dispatched to the registry carries the actor id of the  *)
(* request: as the user_id of its arguments, whatever user_id the model    *)
(* wrote there, and, as a number, as its actor parameter.                  *)
(***************************************************************************)
C6_DispatchUsesRequestActor ==
    \A r \in SeqRequests :
        \A k \in 1..Len(run[r].dispatched) :
            /\ run[r].dispatched[k].args["user_id"] = proc[r].context.user_id
            /\ run[r].dispatched[k].actor = ParseInt(proc[r].context.user_id)
            /\ IsIntLiteral(proc[r].context.user_id)

\* The first requested call carried another user_id and has been dispatched.
C6_Witness ==
    \E r \in SeqRequests :
        /\ Len(run[r].dispatched) >= 1
        /\ LET loaded == JsonLoads(Requested(r)[1].arguments)
           IN /\ loaded.kind = "dict"
              /\ "user_id" \in DOMAIN loaded.value
              /\ loaded.value["user_id"] # proc[r].context.user_id

(***************************************************************************)
(* C7.  As claimed: a call of process made while OPENAI_API_KEY is absent  *)
(* returns the configuration error and issues no completion request,       *)
(* whatever calls were made before on the runner.  Stated for the calls    *)
(* that have a user message; a call without one returns the "didn't        *)
(* understand" text of C10 instead.                                        *)
(***************************************************************************)
C7_NoKeyNoRequest ==
    \A r \in SeqRequests :
        (Returned(r) /\ ~apiKey /\ proc[r].last_message # << >>) =>
            /\ proc[r].result = ConfigErrorText
            /\ run[r].sent = << >>

(***************************************************************************)
(* C7, amended.  A call of process whose history has a last user message   *)
(* that is not empty, made while OPENAI_API_KEY is absent and while the    *)
(* runner holds no client from an earlier call, returns the configuration  *)
(* error and issues no completion request.                                 *)
(***************************************************************************)
C7_NoKeyNoClientNoRequest ==
    \A r \in SeqRequests :
        (Returned(r) /\ ~apiKey /\ ~proc[r].had_client
                     /\ proc[r].last_message # << >>) =>
            /\ proc[r].result = ConfigErrorText
            /\ run[r].sent = << >>

\* Such a call has returned after its worker ran.
C7_Witness ==
    \E r \in SeqRequests :
        /\ Returned(r)
        /\ ~apiKey
        /\ ~proc[r].had_client
        /\ proc[r].last_message # << >>
        /\ run[r].pc = "done"

(***************************************************************************)
(* C8.  As claimed: when a completion request raises an error whose        *)
(* message contains "rate_limit", run returns success=false with the       *)
(* rate-limit text, whatever else the message holds and whatever the type  *)
(* of the exception.                                                       *)
(***************************************************************************)
C8_RateLimitAlwaysReported ==
    \A r \in SeqRequests :
        (RunDone(r) /\ run[r].raised # << >>
                    /\ InText("rate_limit", run[r].raised[1].msg)) =>
            /\ ~run[r].result.success
            /\ run[r].result.response = RateLimitText

(***************************************************************************)
(* C8, amended.  When a completion request raises, run returns             *)
(* success=false; the response is the rate-limit text when the exception   *)
(* is no ValueError and its message contains "rate_limit" and, in any      *)
(* letter case, neither "api_key" nor "authentication".                    *)
(***************************************************************************)
C8_RateLimitReported ==
    \A r \in SeqRequests :
        (RunDone(r) /\ run[r].raised # << >>) =>
            /\ ~run[r].result.success
            /\ (/\ run[r].raised[1].type # "ValueError"
                /\ InText("rate_limit", run[r].raised[1].msg)
                /\ ~InLower("api_key", run[r].raised[1].msg)
                /\ ~InLower("authentication", run[r].raised[1].msg))
               => run[r].result.response = RateLimitText

\* The second request raised a rate-limit error whose message also names the model.
C8_Witness ==
    \E r \in SeqRequests :
        /\ RunDone(r)
        /\ Len(run[r].sent) = 2
        /\ run[r].raised = <<[type |-> "Exception",
                              msg |-> <<"rate_limit_exceeded", "model_not_found">>]>>
        /\ run[r].result.response = RateLimitText

(***************************************************************************)
(* C9.  When the first response holds no tool call, the run is over with   *)
(* success=true, no call was dispatched to the registry, no second request *)
(* was issued, and the response is the content of the first response, or   *)
(* the fixed fallback text when that content is empty.                     *)
(***************************************************************************)
C9_NoToolCallsDirectAnswer ==
    \A r \in SeqRequests :
        (run[r].received # << >> /\ run[r].received[1].tool_calls = << >>) =>
            /\ RunDone(r)
            /\ run[r].dispatched = << >>
            /\ Len(run[r].sent) = 1
            /\ run[r].result.success
            /\ run[r].result.response =
                  (IF run[r].received[1].content = << >>
                   THEN <<"I'm here to help! What would you like to know?">>
                   ELSE run[r].received[1].content)

\* A first response with no tool call and no content has arrived.
C9_Witness ==
    \E r \in SeqRequests :
        /\ run[r].received # << >>
        /\ run[r].received[1] = [content |-> << >>, tool_calls |-> << >>]
        /\ Returned(r)

(***************************************************************************)
(* C10.  A call of process whose history holds no turn of role user        *)
(* returns the fixed "I didn't understand your request" text; run is not   *)
(* started and no completion request is issued.                            *)
(***************************************************************************)
NoUserTurn(messages) == \A k \in 1..Len(messages) : messages[k].role # "user"

C10_NoUserTurnNoRun ==
    \A r \in SeqRequests :
        (proc[r].pc # "idle" /\ NoUserTurn(proc[r].context.messages)) =>
            /\ Returned(r)
            /\ proc[r].result =
                  <<"I didn't understand your request. Could you please try again?">>
            /\ run[r].pc = "none"
            /\ run[r].sent = << >>

\* A call with a history of assistant turns only has returned.
C10_Witness ==
    \E r \in SeqRequests :
        /\ Returned(r)
        /\ proc[r].context.messages # << >>
        /\ NoUserTurn(proc[r].context.messages)

(***************************************************************************)
(* C11.  However the calls of get_agent_runner interleave, ChatAgentRunner *)
(* is constructed at most once and all calls return the same instance.     *)
(***************************************************************************)
C11_OneInstance ==
    /\ singleton.built <= 1
    /\ Cardinality(singleton.returned) <= 1

(***************************************************************************)
(* C12.  A run always returns a result.  When the credential lookup fails  *)
(* (nothing was sent) or a completion request raised, the result has       *)
(* success=false, a response that is not empty and, as error, the message  *)
(* of the exception as raised; a result with success=true means that every *)
(* completion request the run sent was answered.                           *)
(***************************************************************************)
C12_FailureIsReported ==
    \A r \in SeqRequests :
        RunDone(r) =>
            LET result == run[r].result
            IN /\ run[r].sent = << >> =>
                    /\ ~result.success
                    /\ result.response # << >>
                    /\ result.error = {ConfigErrorText}
               /\ run[r].raised # << >> =>
                    /\ ~result.success
                    /\ result.response # << >>
                    /\ result.error = {run[r].raised[1].msg}
               /\ result.success =>
                    /\ run[r].raised = << >>
                    /\ run[r].sent # << >>
                    /\ Len(run[r].received) = Len(run[r].sent)

(***************************************************************************)
(* C13.  The first completion request of every run contains, as a user     *)
(* message, the last user message that process found in the history and    *)
(* passed to run.                                                          *)
(***************************************************************************)
C13_FirstRequestHasLastUserMessage ==
    \A r \in SeqRequests :
        run[r].sent # << >> =>
            \E k \in 2..Len(run[r].sent[1].messages) :
                /\ run[r].sent[1].messages[k].role = "user"
                /\ run[r].sent[1].messages[k].content = proc[r].last_message

(***************************************************************************)
(* C16.  The messages of the first completion request are the system       *)
(* prompt followed by exactly those of the last ten turns of the history   *)
(* whose role is user or assistant and whose content is not empty, in the  *)
(* order of the history: never more than ten turns, none older than the    *)
(* last ten, none of another role, none without content.                   *)
(***************************************************************************)
KeptPlaces(history) ==
    { k \in 1..Len(history) :
        /\ k > Len(history) - 10
        /\ history[k].role \in {"user", "assistant"}
        /\ history[k].content # << >> }

\* The j-th place of a set of places, counted from the smallest.
PlaceNo(places, j) == CHOOSE k \in places : Cardinality({x \in places : x <= k}) = j

C16_PromptIsSystemThenLastTurns ==
    \A r \in SeqRequests :
        run[r].sent # << >> =>
            LET history == proc[r].context.messages
                prompt == run[r].sent[1].messages
                places == KeptPlaces(history)
            IN /\ Len(prompt) = 1 + Cardinality(places)
               /\ Len(prompt) <= 11
               /\ prompt[1].role = "system"
               /\ prompt[1].content = SYSTEM_PROMPT
               /\ \A j \in 1..Cardinality(places) :
                     /\ prompt[1 + j].role = history[PlaceNo(places, j)].role
                     /\ prompt[1 + j].content = history[PlaceNo(places, j)].content

\* A request was sent for a history of more than ten turns that has, among its
\* last ten, a turn of role system and a turn without content, and an older
\* user turn.
C16_Witness ==
    \E r \in SeqRequests :
        LET history == proc[r].context.messages
        IN /\ run[r].sent # << >>
           /\ Len(history) > 10
           /\ \E k \in 1..Len(history) :
                 k > Len(history) - 10 /\ history[k].role = "system"
           /\ \E k \in 1..Len(history) :
                 k <= Len(history) - 10 /\ history[k].role = "user"

(***************************************************************************)
(* C14.  A run sends at most two completion requests and makes at most one *)
(* round of tool dispatch.  The first request offers the tools; the second *)
(* is sent only after the first response asked for tool calls, and offers  *)
(* no tools.  The calls dispatched are calls of the first response, each   *)
(* at most once; with the second response the run is over, whatever that   *)
(* response asks for.  After a completion request raised, the run is over: *)
(* no request is sent again.                                               *)
(***************************************************************************)
C14_TwoRequestsOneRound ==
    \A r \in SeqRequests :
        LET f == run[r]
        IN /\ Len(f.sent) <= 2
           /\ Len(f.sent) >= 1 => f.sent[1].tools
           /\ Len(f.sent) = 2 =>
                 /\ ~f.sent[2].tools
                 /\ Len(f.received) >= 1
                 /\ f.received[1].tool_calls # << >>
           /\ f.dispatched # << >> =>
                 /\ Len(f.received) >= 1
                 /\ Len(f.dispatched) <= Len(f.received[1].tool_calls)
                 /\ \A k \in 1..Len(f.dispatched) :
                       f.dispatched[k].name = f.received[1].tool_calls[k].name
           /\ Len(f.received) <= Len(f.sent)
           /\ Len(f.received) = 2 => f.pc = "done"
           /\ f.raised # << >> =>
                 /\ f.pc = "done"
                 /\ Len(f.raised) = 1
                 /\ Len(f.sent) = Len(f.received) + 1

\* A run is over whose second response asked for a tool call again, after the
\* calls of the first response were dispatched.
C14_Witness ==
    \E r \in SeqRequests :
        /\ RunDone(r)
        /\ Len(run[r].received) = 2
        /\ run[r].received[2].tool_calls # << >>
        /\ Len(run[r].dispatched) = Len(run[r].received[1].tool_calls)

(***************************************************************************)
(* C15.  The events of a run are ordered.  No tool is dispatched before    *)
(* the first response has arrived.  The requested calls are taken up one   *)
(* at a time in the order of the response: the k-th dispatch is the k-th   *)
(* requested call, and while it is in the registry the results of exactly  *)
(* the calls before it are appended.  The second request is sent only      *)
(* after every requested call has been taken up and has its result         *)
(* appended, in the order of the calls, and no call is in the registry     *)
(* then.  (Taken up: the call statement of lines 179-183 ran for it; for   *)
(* an actor id that is a number, that is a dispatch to the registry.)      *)
(***************************************************************************)
C15_EventsInOrder ==
    \A r \in SeqRequests :
        LET f == run[r]
            calls == Requested(r)
            user_id == proc[r].context.user_id
        IN /\ f.dispatched # << >> =>
                 /\ Len(f.received) >= 1
                 /\ calls = f.received[1].tool_calls
           /\ \A k \in 1..Len(f.dispatched) :
                 /\ k <= Len(calls)
                 /\ f.dispatched[k] = Dispatch(calls[k].name, calls[k].arguments, user_id)
           /\ f.pc = "tool_call" =>
                 /\ Len(f.dispatched) = f.i
                 /\ Len(f.tool_results) = f.i - 1
           /\ Len(f.sent) = 2 =>
                 /\ f.pc # "tool_call"
                 /\ Len(f.tool_results) = Len(calls)
                 /\ \A k \in 1..Len(calls) : f.tool_results[k].tool_call_id = calls[k].id
                 /\ IsIntLiteral(user_id) => Len(f.dispatched) = Len(calls)

\* The second request was sent after two requested calls were dispatched.
C15_Witness ==
    \E r \in SeqRequests :
        /\ Len(run[r].sent) = 2
        /\ Len(Requested(r)) = 2
        /\ Len(run[r].dispatched) = 2

(***************************************************************************)
(* C17.  With two calls of process under way at the same time for          *)
(* different actor ids, nothing of one request reaches the other.  Every   *)
(* dispatch made for a request carries that request's actor id, in the     *)
(* arguments and as the actor.  The result of a request's run is made of   *)
(* its own exchanges: the response is the content of its own last response *)
(* (or the fallback), or the text for its own exception; the records are   *)
(* those of its own calls that succeeded; and process returns the response *)
(* of its own run, or the timeout text.                                    *)
(***************************************************************************)
C17_NoCrossTalk ==
    \A r \in Requests :
        LET f == run[r]
            last == f.received[Len(f.received)]
        IN /\ proc[r].pc # "idle" => proc[r].context.user_id = ActorOf(r)
           /\ \A k \in 1..Len(f.dispatched) :
                 /\ f.dispatched[k].args["user_id"] = ActorOf(r)
                 /\ f.dispatched[k].actor = ParseInt(ActorOf(r))
                 /\ f.dispatched[k].name = Requested(r)[k].name
           /\ RunDone(r) =>
                 /\ f.result.tool_calls = RecordsOfSucceeded(Requested(r), f.tool_results, 1)
                 /\ f.result.success =>
                       /\ f.received # << >>
                       /\ f.result.response \in
                             {last.content, DirectFallbackText, FinalFallbackText}
                       /\ last.content # << >> => f.result.response = last.content
                 /\ (~f.result.success /\ f.raised # << >>) =>
                       f.result.error = {f.raised[1].msg}
                 /\ (~f.result.success /\ f.raised = << >>) =>
                       f.result.error = {ConfigErrorText}
           /\ (Returned(r) /\ proc[r].last_message # << >>) =>
                 proc[r].result \in {f.result.response, TimeoutText}

\* Both requests have a tool call in the registry at the same time.
C17_Witness ==
    /\ \A r \in Requests : run[r].pc = "tool_call" /\ run[r].dispatched # << >>
    /\ proc[1].context.user_id # proc[2].context.user_id

(***************************************************************************)
(* C18.  When the second completion request raises after the tool calls    *)
(* were taken up, run returns success=false, and tool_calls in the result  *)
(* still has one record for every call that the registry had executed with *)
(* success in this run, in the order of the calls, with the tool's name    *)
(* and result.                                                             *)
(***************************************************************************)
SucceededPlaces(tool_results) ==
    { k \in 1..Len(tool_results) : Succeeded(tool_results[k]) }

C18_RecordsSurviveSecondFailure ==
    \A r \in SeqRequests :
        (RunDone(r) /\ Len(run[r].sent) = 2 /\ run[r].raised # << >>) =>
            LET places == SucceededPlaces(run[r].tool_results)
                records == run[r].result.tool_calls
            IN /\ ~run[r].result.success
               /\ Len(records) = Cardinality(places)
               /\ \A j \in 1..Len(records) :
                     /\ records[j].tool_name = Requested(r)[PlaceNo(places, j)].name
                     /\ records[j].result = run[r].tool_results[PlaceNo(places, j)].output[2]

\* The second request raised after one of two dispatched calls had succeeded and
\* the other had failed.
C18_Witness ==
    \E r \in SeqRequests :
        /\ RunDone(r)
        /\ Len(run[r].sent) = 2
        /\ run[r].raised # << >>
        /\ Len(run[r].dispatched) = 2
        /\ Len(run[r].result.tool_calls) = 1

(***************************************************************************)
(* C19.  A missing credential is not kept as a failure.  When a run has    *)
(* returned the configuration error, the runner still has no client and    *)
(* none was constructed.  A run that starts without a client while the     *)
(* credential is present constructs the client and sends the first         *)
(* request.  A run that starts with a client constructs none and sends     *)
(* its request with the one there is, whatever the environment holds; and  *)
(* a client, once there, stays.                                            *)
(***************************************************************************)
RunStarted(r) == run[r].pc \notin {"none", "start"}

C19_ClientMadeOnceWhenKeyPresent ==
    \A r \in SeqRequests :
        /\ (RunDone(r) /\ run[r].sent = << >>) =>
              /\ run[r].result.error = {ConfigErrorText}
              /\ ~client
              /\ ~run[r].made_client
        /\ (RunStarted(r) /\ ~proc[r].had_client /\ apiKey) =>
              /\ run[r].made_client
              /\ client
              /\ run[r].sent # << >>
        /\ (RunStarted(r) /\ proc[r].had_client) =>
              /\ ~run[r].made_client
              /\ run[r].sent # << >>
        /\ proc[r].had_client => client

\* A run that found no client and the credential present has constructed the
\* client and sent its request.
C19_Witness ==
    \E r \in SeqRequests :
        /\ RunStarted(r)
        /\ ~proc[r].had_client
        /\ apiKey
        /\ run[r].made_client
        /\ run[r].sent # << >>

====
